---- MODULE Spec2Model ----
(***************************************************************************)
(* The HCI transport of gatt/linux (linux.go): the read loop over the      *)
(* controller link (mainLoop), the per-frame dispatch (handlePacket and    *)
(* its handlers), and the bring-up sequence (Start, ResetDevice).          *)
(* The packages cmd, event, l2cap and device are outside linux.go; their   *)
(* operations are modelled at their boundary.                              *)
(***************************************************************************)
EXTENDS Integers, Sequences, FiniteSets, TLC

\* Number of frames the environment (controller, kernel, other hosts) puts
\* on the link beyond the responses to this host's own commands.
MaxFrames == 1

\* ------------------------------------------------------------------------
\* Constants of linux.go

ptypeCommandPkt == 1
ptypeACLDataPkt == 2
ptypeSCODataPkt == 3
ptypeEventPkt == 4
ptypeVendorPkt == 255

\* make([]byte, 4096) in mainLoop
ReadBufLen == 4096

expSuccess == <<0>>

defaultResetSeq ==
  << [cp |-> "Reset", exp |-> expSuccess],
     [cp |-> "SetEventMask", exp |-> expSuccess],
     [cp |-> "LESetEventMask", exp |-> expSuccess] >>

bcmResetSeq ==
  << [cp |-> "WriteSimplePairingMode", exp |-> expSuccess],
     [cp |-> "WriteLEHostSupported", exp |-> expSuccess],
     [cp |-> "WriteInquiryMode", exp |-> expSuccess],
     [cp |-> "WritePageScanType", exp |-> expSuccess],
     [cp |-> "WriteInquiryScanType", exp |-> expSuccess],
     [cp |-> "WriteClassOfDevice", exp |-> expSuccess],
     [cp |-> "WritePageTimeout", exp |-> expSuccess],
     [cp |-> "WriteDefaultLinkPolicy", exp |-> expSuccess],
     [cp |-> "HostBufferSize", exp |-> expSuccess] >>

\* Event codes of package event, as NewHCI registers them
LEMeta == 62
DisconnectionComplete == 5
NumberOfCompletedPkts == 19
CommandComplete == 14
CommandStatus == 15

\* NewHCI binding the Command Complete code to the l2cap handler of the line
\* above it
RoutingTableCompleteToL2CAP ==
  [c \in {LEMeta, DisconnectionComplete, NumberOfCompletedPkts,
          CommandComplete, CommandStatus} |->
     CASE c = LEMeta -> "l2c.HandleLEMeta"
       [] c = DisconnectionComplete -> "l2c.HandleDisconnectionComplete"
       [] c = NumberOfCompletedPkts -> "l2c.HandleNumberOfCompletedPkts"
       [] c = CommandComplete -> "l2c.HandleNumberOfCompletedPkts"
       [] c = CommandStatus -> "cmd.HandleStatus"]

\* NewHCI without its last e.HandleEvent call
RoutingTableNoStatus ==
  [c \in {LEMeta, DisconnectionComplete, NumberOfCompletedPkts,
          CommandComplete} |->
     CASE c = LEMeta -> "l2c.HandleLEMeta"
       [] c = DisconnectionComplete -> "l2c.HandleDisconnectionComplete"
       [] c = NumberOfCompletedPkts -> "l2c.HandleNumberOfCompletedPkts"
       [] c = CommandComplete -> "cmd.HandleComplete"]

\* The event routing table NewHCI builds with e.HandleEvent
RoutingTable ==
  [c \in {LEMeta, DisconnectionComplete, NumberOfCompletedPkts,
          CommandComplete, CommandStatus} |->
     CASE c = LEMeta -> "l2c.HandleLEMeta"
       [] c = DisconnectionComplete -> "l2c.HandleDisconnectionComplete"
       [] c = NumberOfCompletedPkts -> "l2c.HandleNumberOfCompletedPkts"
       [] c = CommandComplete -> "cmd.HandleComplete"
       [] c = CommandStatus -> "cmd.HandleStatus"]

\* ------------------------------------------------------------------------
\* Inputs

\* Frames the environment may put on the link: every tag, a Command frame
\* without payload and one with an opcode, one tag outside the defined set.
FrameSet ==
  { <<ptypeCommandPkt>>, <<ptypeCommandPkt, 3, 12>>,
    <<ptypeACLDataPkt, 0>>,
    <<ptypeSCODataPkt, 0>>,
    <<ptypeEventPkt, CommandComplete, 0>>,
    <<ptypeEventPkt, LEMeta>>,
    <<ptypeVendorPkt, 0>>,
    <<5, 0>> }

\* Return parameters the controller may answer a command with
RespStatus == {0, 1}

\* The frame carrying the controller's answer to the outstanding command
ResponseFrame(s) == <<ptypeEventPkt, CommandComplete, s>>

VARIABLES
  dev,          \* the controller link h.dev: "open" or "closed"
  evtHandlers,  \* the event routing table held by h.evt
  loop,         \* mainLoop goroutine: "idle", "spawned", "running", "exited"
  rbuf,         \* the bytes of mainLoop's buffer b written so far
  tasks,        \* the handlePacket goroutines, in order of arrival
  nEnv,         \* frames of FrameSet delivered so far
  reads,        \* calls of h.dev.Read that have returned
  last,         \* n and err of the latest of them
  nRead,        \* reads that returned a frame
  nInvoked,     \* handler invocations made by handlePacket
  nErr,         \* "hci: <err>" lines handlePacket has logged
  halt,         \* "no", "fatal" (log.Fatalf exited) or "panic"
  rphase,       \* ResetDevice: "idle", "default", "bcm", "returned"
  ri,           \* index of the current step in its list
  result,       \* what Start returned: "none", "ok", "err"
  cmdSt,        \* SendAndCheckResp: "none", "waiting", "answered"
  cmdResp,      \* the return parameters correlated to the waiting command
  rspOwed,      \* the controller has not yet answered the last command
  cmdCalls,     \* the steps SendAndCheckResp was called with, in order
  rets          \* what each of those calls returned: "nil" or "err"

loopVars == <<loop, rbuf, nEnv, reads, last, nRead>>
resetVars == <<rphase, ri, result, cmdCalls, rets>>
cmdVars == <<cmdSt, cmdResp, rspOwed>>
vars == <<dev, evtHandlers, loop, rbuf, tasks, nEnv, reads, last, nRead, nInvoked,
          nErr, halt,
          rphase, ri, result, cmdSt, cmdResp, rspOwed, cmdCalls, rets>>

Init ==
  /\ dev = "open"
  /\ evtHandlers = RoutingTable
  /\ loop = "idle"
  /\ rbuf = <<>>
  /\ tasks = <<>>
  /\ nEnv = 0
  /\ reads = 0
  /\ last = [n |-> 0, err |-> "nil"]
  /\ nRead = 0
  /\ nInvoked = 0
  /\ nErr = 0
  /\ halt = "no"
  /\ rphase = "idle"
  /\ ri = 0
  /\ result = "none"
  /\ cmdSt = "none"
  /\ cmdResp = <<>>
  /\ rspOwed = FALSE
  /\ cmdCalls = <<>>
  /\ rets = <<>>

\* ------------------------------------------------------------------------
\* Close, Start

\* func (h HCI) Close(): h.dev.Close()
Close ==
  /\ halt = "no"
  /\ dev = "open"
  /\ dev' = "closed"
  /\ UNCHANGED <<evtHandlers, tasks, nInvoked, nErr, halt>>
  /\ UNCHANGED <<loopVars, resetVars, cmdVars>>

\* Start calling ResetDevice before it launches mainLoop
StartResetFirst ==
  /\ halt = "no"
  /\ rphase = "idle"
  /\ loop = "idle"
  /\ rphase' = "default"
  /\ ri' = 1
  /\ UNCHANGED <<dev, evtHandlers, tasks, nInvoked, nErr, halt, result,
                 cmdCalls, rets>>
  /\ UNCHANGED <<loopVars, cmdVars>>

\* func (h HCI) Start(): go h.mainLoop(); return h.ResetDevice()
Start ==
  /\ halt = "no"
  /\ rphase = "idle"
  /\ loop = "idle"
  /\ loop' = "spawned"
  /\ rphase' = "default"
  /\ ri' = 1
  /\ UNCHANGED <<dev, evtHandlers, rbuf, tasks, nEnv, reads, last, nRead,
                 nInvoked, nErr, halt, result, cmdCalls, rets>>
  /\ UNCHANGED cmdVars

\* ------------------------------------------------------------------------
\* mainLoop

\* b := make([]byte, 4096): the goroutine reaches its for loop
MainLoopEnter ==
  /\ halt = "no"
  /\ loop = "spawned"
  /\ loop' = "running"
  /\ UNCHANGED <<dev, evtHandlers, rbuf, tasks, nEnv, reads, last, nRead,
                 nInvoked, nErr, halt>>
  /\ UNCHANGED <<resetVars, cmdVars>>

\* What h.dev.Read(b) may return: n, err ("nil" for no error), the bytes
\* written into b, and whether the frame is the controller's answer to the
\* outstanding command.  A closed link only fails.
ReadResults ==
  IF dev = "closed"
  THEN {[n |-> 0, err |-> "closed", data |-> <<>>, sol |-> FALSE]}
  ELSE {[n |-> 0, err |-> "io", data |-> <<>>, sol |-> FALSE],
        [n |-> 0, err |-> "nil", data |-> <<>>, sol |-> FALSE]}
       \cup {[n |-> Len(f), err |-> "nil", data |-> f, sol |-> FALSE] :
               f \in IF nEnv < MaxFrames THEN FrameSet ELSE {}}
       \cup {[n |-> Len(ResponseFrame(s)), err |-> "nil",
              data |-> ResponseFrame(s), sol |-> TRUE] :
               s \in IF rspOwed THEN RespStatus ELSE {}}

\* mainLoop going on after a failed read instead of returning
LoopReturnsOnZeroOnly(n, err) == err = "nil" /\ n = 0

\* mainLoop without its n == 0 test
LoopReturnsOnErrOnly(n, err) == err # "nil"

\* The loop's two return conditions: err != nil, n == 0
LoopReturns(n, err) == err # "nil" \/ n = 0

\* b after a read of data into it
ReadInto(b, data) ==
  [i \in 1..(IF Len(b) > Len(data) THEN Len(b) ELSE Len(data)) |->
     IF i <= Len(data) THEN data[i] ELSE b[i]]

\* p := make([]byte, n); copy(p, b)
CopyOf(b, n) == SubSeq(b, 1, n)

\* go h.handlePacket(p): a goroutine that has not run yet
NewTask(frame, p, sol) ==
  [frame |-> frame, p |-> p, sol |-> sol, pc |-> "ready", h |-> "none",
   arg |-> <<>>, cb |-> "none", err |-> "none", log |-> <<>>]

\* mainLoop calling h.handlePacket(p) itself: the next read waits for the
\* handlers of the frames read before
MainLoopReadWaits ==
  /\ halt = "no"
  /\ loop = "running"
  /\ \A i \in DOMAIN tasks : tasks[i].pc # "ready"
  /\ \E r \in ReadResults :
       /\ r.n <= ReadBufLen
       /\ reads' = reads + 1
       /\ last' = [n |-> r.n, err |-> r.err]
       /\ IF LoopReturns(r.n, r.err)
          THEN /\ loop' = "exited"
               /\ UNCHANGED <<rbuf, tasks, nEnv, nRead, rspOwed>>
          ELSE /\ loop' = "running"
               /\ rbuf' = ReadInto(rbuf, r.data)
               /\ tasks' = Append(tasks, NewTask(r.data, CopyOf(rbuf', r.n), r.sol))
               /\ nRead' = nRead + 1
               /\ nEnv' = IF r.sol THEN nEnv ELSE nEnv + 1
               /\ rspOwed' = IF r.sol THEN FALSE ELSE rspOwed
  /\ UNCHANGED <<dev, evtHandlers, nInvoked, nErr, halt, cmdSt, cmdResp>>
  /\ UNCHANGED resetVars

\* One iteration of the for loop
MainLoopRead ==
  /\ halt = "no"
  /\ loop = "running"
  /\ \E r \in ReadResults :
       /\ r.n <= ReadBufLen
       /\ reads' = reads + 1
       /\ last' = [n |-> r.n, err |-> r.err]
       /\ IF LoopReturns(r.n, r.err)
          THEN /\ loop' = "exited"
               /\ UNCHANGED <<rbuf, tasks, nEnv, nRead, rspOwed>>
          ELSE /\ loop' = "running"
               /\ rbuf' = ReadInto(rbuf, r.data)
               /\ tasks' = Append(tasks, NewTask(r.data, CopyOf(rbuf', r.n), r.sol))
               /\ nRead' = nRead + 1
               /\ nEnv' = IF r.sol THEN nEnv ELSE nEnv + 1
               /\ rspOwed' = IF r.sol THEN FALSE ELSE rspOwed
  /\ UNCHANGED <<dev, evtHandlers, nInvoked, nErr, halt, cmdSt, cmdResp>>
  /\ UNCHANGED resetVars

\* ------------------------------------------------------------------------
\* handlePacket and its handlers

\* The switch with the SCO and Event cases exchanged
HandlerForSwapped(t) ==
  CASE t = ptypeCommandPkt -> "handleCmd"
    [] t = ptypeACLDataPkt -> "l2c.HandleL2CAP"
    [] t = ptypeSCODataPkt -> "evt.Dispatch"
    [] t = ptypeEventPkt -> "handleSCO"
    [] t = ptypeVendorPkt -> "handleVendor"
    [] OTHER -> "none"

\* The switch with the Vendor case falling into the Event case
HandlerForVendorAsEvent(t) ==
  CASE t = ptypeCommandPkt -> "handleCmd"
    [] t = ptypeACLDataPkt -> "l2c.HandleL2CAP"
    [] t = ptypeSCODataPkt -> "handleSCO"
    [] t = ptypeEventPkt -> "evt.Dispatch"
    [] t = ptypeVendorPkt -> "evt.Dispatch"
    [] OTHER -> "none"

\* The switch with a default branch that returns an error like handleVendor
HandlerForUnknownAsVendor(t) ==
  CASE t = ptypeCommandPkt -> "handleCmd"
    [] t = ptypeACLDataPkt -> "l2c.HandleL2CAP"
    [] t = ptypeSCODataPkt -> "handleSCO"
    [] t = ptypeEventPkt -> "evt.Dispatch"
    [] OTHER -> "handleVendor"

\* The switch of handlePacket; "none" is its default branch
HandlerFor(t) ==
  CASE t = ptypeCommandPkt -> "handleCmd"
    [] t = ptypeACLDataPkt -> "l2c.HandleL2CAP"
    [] t = ptypeSCODataPkt -> "handleSCO"
    [] t = ptypeEventPkt -> "evt.Dispatch"
    [] t = ptypeVendorPkt -> "handleVendor"
    [] OTHER -> "none"

\* func (h HCI) handleCmd(b): op := uint16(b[0]) | uint16(b[1])<<8 indexes
\* the first two bytes of b, which panics on a shorter b
handleCmd(b) ==
  IF Len(b) < 2
  THEN [res |-> "panic", msg |-> "index out of range", cb |-> "none",
        deliver |-> FALSE, log |-> <<>>]
  ELSE [res |-> "nil", msg |-> "", cb |-> "none", deliver |-> FALSE,
        log |-> << <<"unmanaged cmd", b[1] + 256 * b[2]>> >>]

\* func (h HCI) handleSCO(b)
handleSCO(b) ==
  [res |-> "err", msg |-> "SCO packet not supported", cb |-> "none",
   deliver |-> FALSE, log |-> <<>>]

\* func (h HCI) handleVendor(b)
handleVendor(b) ==
  [res |-> "err", msg |-> "Vendor packet not supported", cb |-> "none",
   deliver |-> FALSE, log |-> <<>>]

\* l2cap.L2CAP.HandleL2CAP(b): either outcome
HandleL2CAP(b) ==
  {[res |-> r, msg |-> IF r = "err" THEN "l2cap" ELSE "", cb |-> "none",
    deliver |-> FALSE, log |-> <<>>] : r \in {"nil", "err"}}

\* event.Event.Dispatch(b): looks the event code b[0] up in the routing
\* table and calls the handler bound to it.  The two handlers of cmd hand the
\* return parameters to the waiting SendAndCheckResp, and fail when no
\* command is waiting; the handlers of l2cap have either outcome.
Dispatch(b) ==
  IF Len(b) = 0 \/ b[1] \notin DOMAIN evtHandlers
  THEN {[res |-> "err", msg |-> "event", cb |-> "none", deliver |-> FALSE,
         log |-> <<>>]}
  ELSE LET f == evtHandlers[b[1]] IN
       IF f \in {"cmd.HandleComplete", "cmd.HandleStatus"}
       THEN IF cmdSt = "waiting"
            THEN {[res |-> "nil", msg |-> "", cb |-> f, deliver |-> TRUE,
                   log |-> <<>>]}
            ELSE {[res |-> "err", msg |-> "no pending command", cb |-> f,
                   deliver |-> FALSE, log |-> <<>>]}
       ELSE {[res |-> r, msg |-> IF r = "err" THEN "l2cap" ELSE "", cb |-> f,
              deliver |-> FALSE, log |-> <<>>] : r \in {"nil", "err"}}

\* The call the switch makes for handler h
HandlerResults(h, b) ==
  CASE h = "handleCmd" -> {handleCmd(b)}
    [] h = "l2c.HandleL2CAP" -> HandleL2CAP(b)
    [] h = "handleSCO" -> {handleSCO(b)}
    [] h = "evt.Dispatch" -> Dispatch(b)
    [] h = "handleVendor" -> {handleVendor(b)}

\* if err != nil { log.Printf("hci: %s, [ % X]", err, b) }
ErrLog(res, msg, b) ==
  IF res = "err" THEN << <<"hci", msg, b>> >> ELSE <<>>

\* handlePacket ending the process on a returned error (log.Fatalf for
\* log.Printf)
HaltAfterFatalOnErr(res) ==
  IF res = "panic" THEN "panic" ELSE IF res = "err" THEN "fatal" ELSE "no"

\* Whether the process goes on after the handler returned: a panic ends it,
\* a returned error is only logged
HaltAfter(res) == IF res = "panic" THEN "panic" ELSE "no"

\* The goroutines without entry i
Without(ts, i) == SubSeq(ts, 1, i - 1) \o SubSeq(ts, i + 1, Len(ts))

\* mainLoop handing the goroutine a slice of its own buffer
\* (go h.handlePacket(b[:n])): the goroutine sees what b holds when it runs
BufOfShared(t) == SubSeq(rbuf, 1, Len(t.p))

\* The parameter b of handlePacket in goroutine t: the copy p made for it
BufOf(t) == t.p

\* func (h HCI) handlePacket(b), run by goroutine i.  The finished goroutine
\* of a controller response is forgotten; the counters keep its trace.
HandlePacket(i) ==
  /\ halt = "no"
  /\ tasks[i].pc = "ready"
  /\ IF Len(BufOf(tasks[i])) = 0
     THEN \* b[0] of an empty b
          /\ halt' = "panic"
          /\ tasks' = [tasks EXCEPT ![i].pc = "dead"]
          /\ UNCHANGED <<nInvoked, nErr, cmdVars>>
     ELSE LET t == BufOf(tasks[i])[1]
              b == Tail(BufOf(tasks[i]))
              h == HandlerFor(t)
          IN IF h = "none"
             THEN \* default: log.Fatalf
                  /\ halt' = "fatal"
                  /\ tasks' = [tasks EXCEPT ![i].pc = "dead",
                                            ![i].log = << <<"Unknown Event", t, b>> >>]
                  /\ UNCHANGED <<nInvoked, nErr, cmdVars>>
             ELSE \E o \in HandlerResults(h, b) :
                    LET done == [tasks[i] EXCEPT
                                   !.pc = IF o.res = "panic" THEN "dead" ELSE "done",
                                   !.h = h, !.arg = b, !.cb = o.cb, !.err = o.res,
                                   !.log = o.log \o ErrLog(o.res, o.msg, b)]
                    IN /\ nInvoked' = nInvoked + 1
                       /\ nErr' = nErr + Len(ErrLog(o.res, o.msg, b))
                       /\ halt' = HaltAfter(o.res)
                       /\ tasks' = IF done.sol /\ done.pc = "done"
                                   THEN Without(tasks, i)
                                   ELSE [tasks EXCEPT ![i] = done]
                       /\ cmdSt' = IF o.deliver THEN "answered" ELSE cmdSt
                       /\ cmdResp' = IF o.deliver THEN Tail(b) ELSE cmdResp
                       /\ UNCHANGED rspOwed
  /\ UNCHANGED <<dev, evtHandlers>>
  /\ UNCHANGED <<loopVars, resetVars>>

\* ------------------------------------------------------------------------
\* ResetDevice

\* The list the current for loop ranges over, and its current element s
CurrentSeq == IF rphase = "default" THEN defaultResetSeq ELSE bcmResetSeq
CurrentStep == CurrentSeq[ri]

\* ResetDevice going on to the next step whatever the step returned
AfterStepIgnoreErr(phase, i, err) ==
  IF phase = "default"
  THEN IF i < Len(defaultResetSeq)
       THEN [phase |-> "default", i |-> i + 1, result |-> "none"]
       ELSE [phase |-> "bcm", i |-> 1, result |-> "none"]
  ELSE IF i < Len(bcmResetSeq)
       THEN [phase |-> "bcm", i |-> i + 1, result |-> "none"]
       ELSE [phase |-> "returned", i |-> 0, result |-> "ok"]

\* ResetDevice leaving the first loop on an error (break for return err)
AfterStepBreak(phase, i, err) ==
  IF phase = "default"
  THEN IF err \/ i >= Len(defaultResetSeq)
       THEN [phase |-> "bcm", i |-> 1, result |-> "none"]
       ELSE [phase |-> "default", i |-> i + 1, result |-> "none"]
  ELSE IF err
       THEN [phase |-> "returned", i |-> 0, result |-> "err"]
       ELSE IF i < Len(bcmResetSeq)
            THEN [phase |-> "bcm", i |-> i + 1, result |-> "none"]
            ELSE [phase |-> "returned", i |-> 0, result |-> "ok"]

\* ResetDevice without its second loop
AfterStepNoVendor(phase, i, err) ==
  IF err
  THEN [phase |-> "returned", i |-> 0, result |-> "err"]
  ELSE IF i < Len(defaultResetSeq)
       THEN [phase |-> "default", i |-> i + 1, result |-> "none"]
       ELSE [phase |-> "returned", i |-> 0, result |-> "ok"]

\* ResetDevice passing over every other vendor step
AfterStepSkip(phase, i, err) ==
  IF err
  THEN [phase |-> "returned", i |-> 0, result |-> "err"]
  ELSE IF phase = "default"
       THEN IF i < Len(defaultResetSeq)
            THEN [phase |-> "default", i |-> i + 1, result |-> "none"]
            ELSE [phase |-> "bcm", i |-> 1, result |-> "none"]
       ELSE IF i + 1 < Len(bcmResetSeq)
            THEN [phase |-> "bcm", i |-> i + 2, result |-> "none"]
            ELSE [phase |-> "returned", i |-> 0, result |-> "ok"]

\* Where ResetDevice stands after SendAndCheckResp returned for step i of
\* list phase: return err, the next step, the next list, or return nil
AfterStep(phase, i, err) ==
  IF err
  THEN [phase |-> "returned", i |-> 0, result |-> "err"]
  ELSE IF phase = "default"
       THEN IF i < Len(defaultResetSeq)
            THEN [phase |-> "default", i |-> i + 1, result |-> "none"]
            ELSE [phase |-> "bcm", i |-> 1, result |-> "none"]
       ELSE IF i < Len(bcmResetSeq)
            THEN [phase |-> "bcm", i |-> i + 1, result |-> "none"]
            ELSE [phase |-> "returned", i |-> 0, result |-> "ok"]

\* Start closing the link when ResetDevice returned an error
LinkAfterStartClosedOnErr(d, res) == IF res = "err" THEN "closed" ELSE d

\* The link after ResetDevice went on or returned res: Start returns what
\* ResetDevice returned and does nothing else
LinkAfterStart(d, res) == d

\* cmd.Cmd.SendAndCheckResp: the response equals the expected bytes
RespMismatch(rsp, exp) == rsp # exp

\* h.Cmd().SendAndCheckResp(s.cp, s.exp) is called: the command is written
\* to the link and the call blocks for its response; on a closed link the
\* write fails and the call returns the error.
SendAndCheckRespCall ==
  /\ halt = "no"
  /\ rphase \in {"default", "bcm"}
  /\ cmdSt = "none"
  /\ cmdCalls' = Append(cmdCalls, CurrentStep)
  /\ IF dev = "closed"
     THEN LET nx == AfterStep(rphase, ri, TRUE)
          IN /\ rets' = Append(rets, "err")
             /\ rphase' = nx.phase
             /\ ri' = nx.i
             /\ result' = nx.result
             /\ dev' = LinkAfterStart(dev, nx.result)
             /\ UNCHANGED cmdVars
     ELSE /\ cmdSt' = "waiting"
          /\ cmdResp' = <<>>
          /\ rspOwed' = TRUE
          /\ UNCHANGED <<dev, rphase, ri, result, rets>>
  /\ UNCHANGED <<evtHandlers, tasks, nInvoked, nErr, halt>>
  /\ UNCHANGED loopVars

\* The blocked SendAndCheckResp got its response and returns; ResetDevice
\* goes on or returns.
SendAndCheckRespReturn ==
  /\ halt = "no"
  /\ rphase \in {"default", "bcm"}
  /\ cmdSt = "answered"
  /\ LET err == RespMismatch(cmdResp, CurrentStep.exp)
         nx == AfterStep(rphase, ri, err)
     IN /\ rets' = Append(rets, IF err THEN "err" ELSE "nil")
        /\ rphase' = nx.phase
        /\ ri' = nx.i
        /\ result' = nx.result
        /\ dev' = LinkAfterStart(dev, nx.result)
  /\ cmdSt' = "none"
  /\ cmdResp' = <<>>
  /\ UNCHANGED <<evtHandlers, tasks, nInvoked, nErr, halt, rspOwed, cmdCalls>>
  /\ UNCHANGED loopVars

\* ------------------------------------------------------------------------

Next ==
  \/ Close
  \/ Start
  \/ MainLoopEnter
  \/ MainLoopRead
  \/ \E i \in DOMAIN tasks : HandlePacket(i)
  \/ SendAndCheckRespCall
  \/ SendAndCheckRespReturn

Spec == Init /\ [][Next]_vars

\* A read of the closed link, which returns at once
MainLoopReadClosed == dev = "closed" /\ MainLoopRead

\* The scheduler runs the read loop's goroutine; a read of the closed link
\* returns.
LoopFairSpec ==
  /\ Init
  /\ [][Next]_vars
  /\ WF_vars(MainLoopEnter)
  /\ WF_vars(MainLoopReadClosed)

\* The read that returns the controller's response to the outstanding command
MainLoopReadResponse == MainLoopRead /\ rspOwed /\ ~rspOwed'

\* The scheduler runs every goroutine that can take a step; a read of the
\* closed link returns, and so does a read of the open link while the
\* controller owes a response (every response is delivered); any other read
\* of the open link may block for ever.
LiveSpec ==
  /\ Init
  /\ [][Next]_vars
  /\ WF_vars(MainLoopEnter)
  /\ WF_vars(MainLoopReadClosed)
  /\ WF_vars(MainLoopReadResponse)
  /\ WF_vars(\E i \in DOMAIN tasks : HandlePacket(i))
  /\ WF_vars(SendAndCheckRespCall)
  /\ WF_vars(SendAndCheckRespReturn)

\* ------------------------------------------------------------------------
\* Properties

\* The steps of bring-up in issue order
AllSteps == defaultResetSeq \o bcmResetSeq

IsVendorStep(c) == \E k \in DOMAIN bcmResetSeq : bcmResetSeq[k] = c

DefinedTags ==
  {ptypeCommandPkt, ptypeACLDataPkt, ptypeSCODataPkt, ptypeEventPkt,
   ptypeVendorPkt}

\* The handlePacket goroutines that have run
Ran == {i \in DOMAIN tasks : tasks[i].pc # "ready"}

\* C1: if step i is the first step whose SendAndCheckResp returns an error,
\* ResetDevice returns that error after exactly i calls of SendAndCheckResp
\* (the first i steps in issue order), and no further command is ever sent.
C1_FailFast ==
  \A i \in DOMAIN rets :
    rets[i] = "err" =>
      /\ i = Len(rets)
      /\ cmdCalls = SubSeq(AllSteps, 1, i)
      /\ result = "err"
      /\ rphase = "returned"
      /\ cmdSt = "none"

\* Step 2 of the baseline list got a mismatched response on an open link
C1_Witness ==
  /\ dev = "open"
  /\ rets = <<"nil", "err">>
  /\ Len(cmdCalls) = 2
  /\ result = "err"

\* C2: a vendor step is issued only when every baseline step has been
\* issued before it and has returned success.
C2_VendorAfterBaseline ==
  \A j \in DOMAIN cmdCalls :
    IsVendorStep(cmdCalls[j]) =>
      /\ j > Len(defaultResetSeq)
      /\ SubSeq(cmdCalls, 1, Len(defaultResetSeq)) = defaultResetSeq
      /\ Len(rets) >= Len(defaultResetSeq)
      /\ \A k \in 1..Len(defaultResetSeq) : rets[k] = "nil"

\* The first vendor step has been issued
C2_Witness ==
  /\ Len(cmdCalls) = Len(defaultResetSeq) + 1
  /\ IsVendorStep(cmdCalls[Len(cmdCalls)])

\* C3: Start returns success exactly when all K + V steps returned success,
\* and then each step was issued once, in list order, baseline list first.
C3_SuccessIffAllSteps ==
  /\ (result = "ok") <=>
       (Len(rets) = Len(AllSteps) /\ \A i \in DOMAIN rets : rets[i] = "nil")
  /\ result = "ok" => cmdCalls = AllSteps /\ rphase = "returned"
  /\ Len(cmdCalls) >= 1 => cmdCalls[1].cp = "Reset"

\* Bring-up has returned success
C3_Witness == result = "ok" /\ Len(cmdCalls) = Len(AllSteps)

\* C4: a goroutine that has run on a frame with a defined tag has invoked the
\* handler of that tag, and only it, with the frame minus its first byte.
C4_RoutedByTag ==
  \A i \in Ran :
    LET f == tasks[i].frame IN
      f[1] \in DefinedTags =>
        /\ tasks[i].arg = Tail(f)
        /\ tasks[i].h =
             CASE f[1] = 1 -> "handleCmd"
               [] f[1] = 2 -> "l2c.HandleL2CAP"
               [] f[1] = 3 -> "handleSCO"
               [] f[1] = 4 -> "evt.Dispatch"
               [] f[1] = 255 -> "handleVendor"
        /\ nInvoked <= nRead

\* An Event frame has been dispatched to the Event Subsystem
C4_Witness ==
  \E i \in Ran : tasks[i].frame[1] = ptypeEventPkt /\ tasks[i].h = "evt.Dispatch"

\* C5, as claimed, for frames with defined tags: once no handler goroutine
\* can run any more, every frame read has had its handler invoked.
C5_EveryFrameHandled ==
  ( /\ \A i \in DOMAIN tasks : tasks[i].frame[1] \in DefinedTags
    /\ halt # "no" \/ \A i \in DOMAIN tasks : tasks[i].pc # "ready" )
  => nInvoked = nRead

\* C6: handling an SCO or Vendor frame returns the "not supported" error,
\* which is logged with the payload; the step calls neither evt.Dispatch, the
\* l2cap handler nor cmd, and leaves the read loop and the process running.
C6_Unsupported ==
  [][\A i \in DOMAIN tasks :
       ( /\ Len(tasks') = Len(tasks)
         /\ tasks[i].pc = "ready"
         /\ tasks'[i].pc # "ready"
         /\ tasks[i].frame[1] \in {ptypeSCODataPkt, ptypeVendorPkt} )
       => /\ tasks'[i].pc = "done"
          /\ tasks'[i].err = "err"
          /\ tasks'[i].h \in {"handleSCO", "handleVendor"}
          /\ tasks'[i].cb = "none"
          /\ tasks'[i].log =
               << <<"hci",
                    IF tasks[i].frame[1] = ptypeSCODataPkt
                    THEN "SCO packet not supported"
                    ELSE "Vendor packet not supported",
                    Tail(tasks[i].frame)>> >>
          /\ nErr' = nErr + 1
          /\ halt' = "no"
          /\ UNCHANGED <<dev, loopVars, resetVars, cmdVars>>]_vars

\* A Vendor frame has been handled while the read loop runs
C6_Witness ==
  \E i \in Ran :
    /\ tasks[i].frame[1] = ptypeVendorPkt
    /\ tasks[i].err = "err"
    /\ loop = "running"

\* C7: a read that returns an error or zero bytes ends the loop without
\* dispatching anything; once the loop has ended there is no further read and
\* no further dispatch.
C7_LoopEndsForGood ==
  [][ /\ (reads' # reads /\ (last'.err # "nil" \/ last'.n = 0))
         => (loop' = "exited" /\ tasks' = tasks /\ nRead' = nRead)
      /\ loop = "exited"
         => ( /\ loop' = "exited"
              /\ reads' = reads
              /\ nRead' = nRead
              /\ Len(tasks') <= Len(tasks) )
      /\ loop = "exited" => ~ENABLED MainLoopRead ]_vars

\* The loop ended on a zero-length read after it had dispatched a frame
C7_Witness ==
  /\ loop = "exited"
  /\ last = [n |-> 0, err |-> "nil"]
  /\ nRead >= 1
  /\ dev = "open"

\* C8: a step in which a handler's error is logged leaves the process, the
\* read loop, bring-up and every other goroutine as they were.
C8_HandlerErrorOnlyLogged ==
  [][ nErr' # nErr =>
        /\ halt' = "no"
        /\ UNCHANGED <<dev, loopVars, resetVars, cmdVars>>
        /\ \/ /\ Len(tasks') = Len(tasks)
              /\ \E i \in DOMAIN tasks :
                   /\ tasks[i].pc = "ready"
                   /\ tasks'[i].err = "err"
                   /\ \A j \in DOMAIN tasks \ {i} : tasks'[j] = tasks[j]
           \/ \E i \in DOMAIN tasks :
                /\ tasks[i].pc = "ready"
                /\ tasks[i].sol
                /\ tasks' = Without(tasks, i) ]_vars

\* After a handler failed, the loop read a later frame and bring-up went on
C8_Witness ==
  /\ \E i \in Ran : tasks[i].err = "err" /\ i < Len(tasks)
  /\ loop = "running"
  /\ Len(cmdCalls) >= 2

\* C9: on the closed link no read returns a frame, and the read loop, once
\* started, ends (or the process has ended before).
C9_CloseEndsLoop ==
  /\ [][dev = "closed" => nRead' = nRead /\ Len(tasks') <= Len(tasks)]_vars
  /\ (dev = "closed" /\ loop \in {"spawned", "running"})
       ~> (loop = "exited" \/ halt # "no")

\* The loop ended on the read of the closed link, after it had read a frame
C9_Witness ==
  /\ dev = "closed"
  /\ loop = "exited"
  /\ last.err = "closed"
  /\ nRead >= 1

\* C10, as claimed: a goroutine that has run on a Command frame got a nil
\* outcome from handleCmd, which called nothing else, and the process runs on.
C10_CmdObserverNeverFails ==
  \A i \in Ran :
    tasks[i].frame[1] = ptypeCommandPkt =>
      /\ tasks[i].pc = "done"
      /\ tasks[i].err = "nil"
      /\ tasks[i].cb = "none"
      /\ halt # "panic"

\* C11: a goroutine that has run on an Event frame whose event code is
\* Command Complete called evt.Dispatch with the frame minus its tag byte,
\* and the dispatch called cmd.HandleComplete, once, and no l2cap handler.
C11_CommandCompleteRouted ==
  \A i \in Ran :
    LET f == tasks[i].frame IN
      (f[1] = ptypeEventPkt /\ Len(f) >= 2 /\ f[2] = 14) =>
        /\ tasks[i].h = "evt.Dispatch"
        /\ tasks[i].arg = Tail(f)
        /\ tasks[i].arg[1] = 14
        /\ tasks[i].cb = "cmd.HandleComplete"
        /\ nInvoked <= nRead

\* An unsolicited Command Complete frame has been dispatched
C11_Witness ==
  \E i \in Ran :
    /\ tasks[i].frame = <<ptypeEventPkt, CommandComplete, 0>>
    /\ tasks[i].cb = "cmd.HandleComplete"
    /\ tasks[i].pc = "done"

\* C12: the routing table binds exactly the five event codes, three to the
\* l2cap handlers and two to the cmd handlers, in every reachable state.
C12_RoutingTableFixed ==
  /\ DOMAIN evtHandlers = {62, 5, 19, 14, 15}
  /\ Cardinality(DOMAIN evtHandlers) = 5
  /\ evtHandlers[62] = "l2c.HandleLEMeta"
  /\ evtHandlers[5] = "l2c.HandleDisconnectionComplete"
  /\ evtHandlers[19] = "l2c.HandleNumberOfCompletedPkts"
  /\ evtHandlers[14] = "cmd.HandleComplete"
  /\ evtHandlers[15] = "cmd.HandleStatus"

\* The table after the loop has read and dispatched events, bring-up has
\* returned and the link is closed
C12_Witness ==
  /\ DOMAIN evtHandlers = DOMAIN RoutingTable
  /\ loop = "exited"
  /\ dev = "closed"
  /\ rphase = "returned"
  /\ nInvoked >= 2

\* C13: the calls of SendAndCheckResp are a prefix of the baseline list
\* followed by the vendor list; at most one call has not returned, and every
\* call before the latest has returned success.
C13_OneStepAtATime ==
  /\ Len(cmdCalls) <= Len(AllSteps)
  /\ cmdCalls = SubSeq(AllSteps, 1, Len(cmdCalls))
  /\ Len(rets) <= Len(cmdCalls)
  /\ Len(cmdCalls) <= Len(rets) + 1
  /\ \A k \in DOMAIN rets : k < Len(cmdCalls) => rets[k] = "nil"
  /\ (cmdSt # "none") <=> (Len(cmdCalls) = Len(rets) + 1)

\* The fifth step is outstanding, the four before it have returned
C13_Witness ==
  /\ Len(cmdCalls) = 5
  /\ Len(rets) = 4
  /\ cmdSt = "waiting"

\* C14, as claimed: when the first bring-up command has been sent, the read
\* loop has reached its first read.
C14_LoopReadingBeforeFirstCmd ==
  Len(cmdCalls) >= 1 => loop \in {"running", "exited"}

\* C14, amended: when the first bring-up command has been sent, the read
\* loop's goroutine has been launched; it may not have run yet.
C14_LoopLaunchedBeforeFirstCmd ==
  /\ rphase # "idle" => loop # "idle"
  /\ Len(cmdCalls) >= 1 => loop \in {"spawned", "running", "exited"}

\* The first command is outstanding and the launched loop has not run yet
C14_Witness ==
  /\ Len(cmdCalls) = 1
  /\ cmdSt = "waiting"
  /\ loop = "spawned"

\* C15: whatever the state of the handler goroutines, the running loop can
\* take its next read and every goroutine that has not run can run.
C15_LoopNeverWaits ==
  halt = "no" =>
    /\ loop = "running" => ENABLED MainLoopRead
    /\ \A i \in DOMAIN tasks : tasks[i].pc = "ready" => ENABLED HandlePacket(i)

\* The handler of a later frame has finished, that of an earlier frame has
\* not run, and the loop has gone on reading
C15_Witness ==
  /\ \E i, j \in DOMAIN tasks :
       /\ i < j
       /\ tasks[i].pc = "ready"
       /\ tasks[j].pc = "done"
  /\ loop = "running"
  /\ nRead >= 3

\* The handler of each defined tag
TagHandler(t) ==
  CASE t = 1 -> "handleCmd"
    [] t = 2 -> "l2c.HandleL2CAP"
    [] t = 3 -> "handleSCO"
    [] t = 4 -> "evt.Dispatch"
    [] t = 255 -> "handleVendor"
    [] OTHER -> "none"

\* C16: the buffer of every goroutine holds exactly the n bytes its read
\* returned, and the handler it calls sees those bytes, however the loop has
\* written its own buffer since; a handler step writes neither the loop's
\* buffer nor another goroutine's, and a read writes no goroutine's buffer.
C16_PrivateCopy ==
  /\ [](\A i \in DOMAIN tasks :
          /\ tasks[i].p = tasks[i].frame
          /\ Len(tasks[i].p) <= ReadBufLen
          /\ tasks[i].pc # "ready" =>
               /\ tasks[i].h = TagHandler(tasks[i].frame[1])
               /\ tasks[i].h # "none" => tasks[i].arg = Tail(tasks[i].frame))
  /\ [][ /\ (nInvoked' # nInvoked \/ halt' # halt) =>
              /\ rbuf' = rbuf
              /\ \A j \in DOMAIN tasks' : \E k \in DOMAIN tasks :
                   /\ tasks'[j].p = tasks[k].p
                   /\ tasks'[j].frame = tasks[k].frame
         /\ reads' # reads =>
              \A i \in DOMAIN tasks : tasks'[i].p = tasks[i].p ]_vars

\* A goroutine has not run yet and the loop's buffer no longer holds its
\* frame
C16_Witness ==
  \E i \in DOMAIN tasks :
    /\ tasks[i].pc = "ready"
    /\ tasks[i].frame \in FrameSet
    /\ tasks[i].p = tasks[i].frame
    /\ SubSeq(rbuf, 1, Len(tasks[i].p)) # tasks[i].p

\* C17: a goroutine that ran on a frame with a tag outside the defined set
\* called no handler and ended the process; once the process has ended
\* nothing takes a step: no read, no handler, no bring-up step, no return.
C17_UnknownTagHalts ==
  /\ [](\A i \in Ran :
          tasks[i].frame[1] \notin DefinedTags =>
            /\ halt = "fatal"
            /\ tasks[i].pc = "dead"
            /\ tasks[i].h = "none")
  /\ [](halt = "fatal" => ~ENABLED Next)
  /\ [][halt = "fatal" => UNCHANGED vars]_vars

\* The process ended on an unknown tag with a command outstanding, the loop
\* running and another frame dispatched but not handled
C17_Witness ==
  /\ halt = "fatal"
  /\ cmdSt = "waiting"
  /\ result = "none"
  /\ loop = "running"
  /\ \E i \in DOMAIN tasks : tasks[i].pc = "ready"

\* C19: the step in which Start returns an error leaves the link, the read
\* loop and the handler goroutines as they were; after it the running loop
\* can still read and every dispatched frame can still be handled.
C19_FailureLeavesLoopAlone ==
  /\ [][(result # "err" /\ result' = "err") =>
          /\ UNCHANGED <<dev, tasks, halt, nInvoked>>
          /\ UNCHANGED loopVars]_vars
  /\ []((result = "err" /\ halt = "no") =>
          /\ loop = "running" => ENABLED MainLoopRead
          /\ \A i \in DOMAIN tasks :
               tasks[i].pc = "ready" => ENABLED HandlePacket(i))

\* Bring-up failed on a mismatched response; the link is open, the loop runs
\* and a frame of the environment is dispatched
C19_Witness ==
  /\ result = "err"
  /\ dev = "open"
  /\ loop = "running"
  /\ \E i \in DOMAIN tasks : tasks[i].pc = "ready" /\ ~tasks[i].sol

\* C20: every buffer handed to handlePacket has at least one byte, so no
\* goroutine fails on reading b[0].
C20_BufferNotEmpty ==
  \A i \in DOMAIN tasks :
    /\ Len(tasks[i].p) >= 1
    /\ tasks[i].pc = "dead" =>
         (tasks[i].h = "handleCmd" \/ halt = "fatal")

\* A frame of one byte, the shortest, has been handed to handlePacket, which
\* has read its tag
C20_Witness ==
  \E i \in Ran : Len(tasks[i].p) = 1 /\ tasks[i].h = "handleCmd"

\* A frame that answers a command: a Command Complete or Command Status event
IsCmdResponse(f) ==
  /\ Len(f) >= 2
  /\ f[1] = ptypeEventPkt
  /\ f[2] \in {CommandComplete, CommandStatus}

\* A step waits for a response that nothing can deliver any more
BlockedForGood ==
  /\ cmdSt = "waiting"
  /\ loop = "exited" \/ halt # "no"
  /\ \A i \in DOMAIN tasks :
       tasks[i].pc = "ready" => ~IsCmdResponse(tasks[i].frame)

\* C18: a step that has begun to wait returns only after it was answered,
\* and it is answered only by a handler goroutine running the Event path on
\* a Command Complete or Command Status frame that the read loop read; no
\* step is issued while one waits; a step that waits once the loop has ended
\* waits for ever, with no return and no later step; and when the scheduler
\* is fair and every response is delivered, a started bring-up returns
\* unless the loop or the process has ended.
C18_StepBlocksUntilResponse ==
  /\ [][Len(rets') > Len(rets) =>
          \/ cmdSt = "answered"
          \/ cmdSt = "none" /\ dev = "closed"]_vars
  /\ [][(cmdSt # "answered" /\ cmdSt' = "answered") =>
          /\ cmdSt = "waiting"
          /\ nInvoked' = nInvoked + 1
          /\ nRead >= 1
          /\ \E i \in DOMAIN tasks :
               /\ tasks[i].pc = "ready"
               /\ IsCmdResponse(tasks[i].frame)
               /\ HandlerFor(tasks[i].frame[1]) = "evt.Dispatch"
               /\ cmdResp' = Tail(Tail(tasks[i].p))]_vars
  /\ [][Len(cmdCalls') > Len(cmdCalls) =>
          cmdSt = "none" /\ Len(rets) = Len(cmdCalls)]_vars
  /\ [][BlockedForGood => BlockedForGood' /\ UNCHANGED resetVars]_vars
  /\ (rphase \in {"default", "bcm"}) ~>
       (rphase = "returned" \/ loop = "exited" \/ halt # "no")

\* The first step returned on its response; the second waits, the loop has
\* ended on a failed read and nothing is left to handle
C18_Witness ==
  /\ BlockedForGood
  /\ loop = "exited"
  /\ halt = "no"
  /\ Len(cmdCalls) = 2
  /\ rets = <<"nil">>
  /\ \A i \in DOMAIN tasks : tasks[i].pc # "ready"

====
